---- MODULE Spec2Model ----
(***************************************************************************)
(* A model of the ingestion pipeline of HealthLLM:                         *)
(*   data_handling/get_data.py          iterate_tar, safe_extract_member,  *)
(*                                      process_xml_member,                *)
(*                                      extract_from_xml, text_chunker     *)
(*   data_handling/embedding_functions.py   embed_docs, embed_chunks       *)
(*   data_handling/upload_to_vectordb.py    build_point,                   *)
(*                                          upload_docs_to_qdrant          *)
(* The archive, the embedding provider and the vector store are the        *)
(* environment: their answers are chosen nondeterministically.             *)
(***************************************************************************)
EXTENDS Integers, Sequences, FiniteSets, TLC

VARIABLES
    archive,      \* the members of the .tar.gz file, in archive order
    pc,           \* position of the current invocation
    idx,          \* index in archive of the member the loop is at
    exc,          \* class of the exception that left iterate_tar ("none": none)
    log,          \* messages logged by the current invocation
    store,        \* the points held by the Qdrant collection
    calls,        \* provider and store calls of the current invocation, in order
    gated,        \* indexes the current invocation handed to safe_extract_member
    streams,      \* indexes of the members whose stream is open
    openError,    \* class of the error tarfile.open raised in this invocation
    faults,       \* failures of the environment so far (file system, provider, store)
    prev,         \* how the invocation before the current one ended
    last,         \* the process_xml_member call that has just ended, if one has
    checkpoint,   \* the checkpoint file: the persisted processed member names
    gateIn,       \* gate harness: the member, base_dir and processed set handed over
    gateOut,      \* gate harness: what safe_extract_member answered
    unitIn,       \* function harness: the arguments of the call
    unitOut,      \* function harness: what the call answered
    collections   \* the collections of the Qdrant server, by name

vars == <<archive, pc, idx, exc, log, store, calls, gated, streams,
          openError, faults, prev, last, checkpoint, gateIn, gateOut,
          unitIn, unitOut, collections>>

------------------------------------------------------------------------------
(* Bounds of the model *)

MaxMembers == 2
MaxChunks == 3
MaxFaults == 1

(* Configuration values (config.json), as the tests set them *)

EmbeddingDim == 768
BatchSize == 2

\* Python's None; distinct from every text, also from the text "None"
NoneVal == "<None>"

------------------------------------------------------------------------------
(* Exception classes and the except clauses that catch them *)

ExcParent ==
    [c \in {"FileNotFoundError", "PermissionError", "ConnectionError",
              "IsADirectoryError", "TimeoutError"} |-> "OSError"]
    @@ [c \in {"ReadError"} |-> "TarError"]
    @@ [c \in {"UnicodeDecodeError"} |-> "ValueError"]
    @@ [c \in {"KeyError", "IndexError"} |-> "LookupError"]
    @@ [c \in {"XMLSyntaxError"} |-> "SyntaxError"]
    @@ [c \in {"OSError", "TarError", "EOFError", "ValueError", "LookupError",
               "TypeError", "RuntimeError", "SyntaxError", "AttributeError",
               "UnexpectedResponse"} |-> "Exception"]

RECURSIVE IsSubclass(_, _)
IsSubclass(c, d) ==
    IF c = d THEN TRUE
    ELSE IF c \in DOMAIN ExcParent THEN IsSubclass(ExcParent[c], d)
    ELSE FALSE

\* an except clause naming `classes` catches an exception of class e
Catches(classes, e) == \E c \in classes : IsSubclass(e, c)

------------------------------------------------------------------------------
(* Paths: a path is the sequence of its components; an absolute path       *)
(* starts with the component "/"                                           *)

Cwd == <<"/", "work">>

IsAbs(p) == Len(p) > 0 /\ p[1] = "/"

\* os.path.join(a, b)
PathJoin(a, b) == IF IsAbs(b) THEN b ELSE a \o b

RECURSIVE NormFrom(_, _)
NormFrom(acc, rest) ==
    IF rest = <<>> THEN acc
    ELSE LET c == Head(rest) IN
         IF c = "." THEN NormFrom(acc, Tail(rest))
         ELSE IF c = ".."
              THEN NormFrom(IF Len(acc) > 1 THEN SubSeq(acc, 1, Len(acc) - 1) ELSE acc,
                            Tail(rest))
              ELSE NormFrom(Append(acc, c), Tail(rest))

\* os.path.abspath(p)
AbsPath(p) == LET q == PathJoin(Cwd, p) IN NormFrom(<<"/">>, Tail(q))

\* p.startswith(d + os.sep), both absolute and normalised
StartsWithDir(p, d) == Len(p) > Len(d) /\ SubSeq(p, 1, Len(d)) = d

\* s.lower() of a file name
Lower(s) ==
    CASE s = "B.XML" -> "b.xml"
      [] s = "C.TXT" -> "c.txt"
      [] OTHER -> s

\* s.endswith(".xml")
EndsWithXml(s) == s \in {"a.xml", "b.xml", "e.xml", "l.xml", "d.xml"}

\* TarInfo.name as text: the last component carries the extension
NameLowerEndsWithXml(name) == Len(name) > 0 /\ EndsWithXml(Lower(name[Len(name)]))

------------------------------------------------------------------------------
(* ArchiveMemberGate *)

isdir(member) == member.kind = "dir"
issym(member) == member.kind = "sym"
islnk(member) == member.kind = "lnk"
isfile(member) == member.kind = "file"

\* TarFile.extractfile: a stream for a regular file, the stream of its target
\* for a link, None for a directory or a special file
extractfile(member) == isfile(member) \/ islnk(member) \/ issym(member)

\* A variant of the path check that compares the joined path as written,
\* without os.path.abspath: ".." components are not resolved.
UnsafePathUnresolved(member, base_dir) ==
    /\ ~StartsWithDir(PathJoin(base_dir, member.name), base_dir)
    /\ isfile(member)

UnsafePath(member, base_dir) ==
    /\ ~StartsWithDir(AbsPath(PathJoin(base_dir, member.name)), AbsPath(base_dir))
    /\ isfile(member)

GateAnswer(stream, e, logged) == [stream |-> stream, exc |-> e, log |-> logged]

\* A variant of the gate without the check of the extension.
safe_extract_member_anyname(member, base_dir) ==
    IF isdir(member) THEN GateAnswer(FALSE, "none", {})
    ELSE IF issym(member) \/ islnk(member)
         THEN GateAnswer(FALSE, "none",
                         {[level |-> "warning", msg |-> "Skipping symbolic link in tar",
                           arg |-> member.name]})
    ELSE IF UnsafePath(member, base_dir) THEN GateAnswer(FALSE, "ValueError", {})
    ELSE GateAnswer(extractfile(member), "none", {})

\* A variant of the gate that tests issym() only: a hard link is not skipped.
safe_extract_member_symonly(member, base_dir) ==
    IF ~NameLowerEndsWithXml(member.name) THEN GateAnswer(FALSE, "none", {})
    ELSE IF isdir(member) THEN GateAnswer(FALSE, "none", {})
    ELSE IF issym(member)
         THEN GateAnswer(FALSE, "none",
                         {[level |-> "warning", msg |-> "Skipping symbolic link in tar",
                           arg |-> member.name]})
    ELSE IF UnsafePath(member, base_dir) THEN GateAnswer(FALSE, "ValueError", {})
    ELSE GateAnswer(extractfile(member), "none", {})

safe_extract_member(member, base_dir) ==
    IF ~NameLowerEndsWithXml(member.name) THEN GateAnswer(FALSE, "none", {})
    ELSE IF isdir(member) THEN GateAnswer(FALSE, "none", {})
    ELSE IF issym(member) \/ islnk(member)
         THEN GateAnswer(FALSE, "none",
                         {[level |-> "warning", msg |-> "Skipping symbolic link in tar",
                           arg |-> member.name]})
    ELSE IF UnsafePath(member, base_dir) THEN GateAnswer(FALSE, "ValueError", {})
    ELSE GateAnswer(extractfile(member), "none", {})

------------------------------------------------------------------------------
(* DocumentExtractor *)

MetaKeys == {"file", "title", "journal", "year", "doi", "pmid"}

\* the empty dict
EmptyMeta == [k \in {} |-> NoneVal]

\* dict.get(k)
MetaGet(md, k) == IF k \in DOMAIN md THEN md[k] ELSE NoneVal

\* The text of a document is kept as the number of chunks the splitter cuts
\* it into (0: empty text); present = FALSE is Python's None.
NoText == [present |-> FALSE, pieces |-> 0]

\* xml_source: a path or a binary stream. ref is what "%s" prints of it,
\* failure the class raised when it is opened or read ("none": it is read),
\* doc the document it holds.
Source(ref, failure, doc) == [ref |-> ref, failure |-> failure, doc |-> doc]

\* BytesIO(file_content), as process_xml_member builds it
Stream(doc) == Source(<<"<BytesIO>">>, "none", doc)

\* the class etree.parse raises for the source, "none" when it returns a tree
ParseRaises(xml_source) ==
    IF xml_source.failure # "none" THEN xml_source.failure
    ELSE IF ~xml_source.doc.wellformed THEN "XMLSyntaxError"
    ELSE "none"

\* A variant of the except clause that names XMLSyntaxError only.
ExtractErrorsNarrow == {"XMLSyntaxError"}

\* the classes the except clause of extract_from_xml names
ExtractErrors == {"XMLSyntaxError", "OSError", "IOError", "PermissionError"}

extract_from_xml(xml_source, file_name) ==
    LET e == ParseRaises(xml_source)
        doc == xml_source.doc
    IN IF e = "none"
       THEN [exc |-> "none",
             text |-> [present |-> TRUE, pieces |-> doc.nchunks],
             metadata |-> [k \in MetaKeys |->
                             IF k = "file" THEN file_name ELSE doc[k]],
             log |-> {}]
       ELSE IF Catches(ExtractErrors, e)
       THEN [exc |-> "none",
             text |-> NoText,
             metadata |-> EmptyMeta,
             log |-> {[level |-> "error", msg |-> "XML parsing error in",
                       arg |-> xml_source.ref]}]
       ELSE [exc |-> e, text |-> NoText, metadata |-> EmptyMeta, log |-> {}]

------------------------------------------------------------------------------
(* TextChunker *)

Document(content, metadata) == [page_content |-> content, metadata |-> metadata]

\* page_content: the chunk's number within its text; blank marks a content
\* that is empty after strip()
Content(i) == [id |-> i, blank |-> FALSE]

text_chunker(full_text, metadata) ==
    IF ~full_text.present
    THEN [exc |-> "TypeError", docs |-> <<>>]
    ELSE [exc |-> "none",
          docs |-> [i \in 1..full_text.pieces |-> Document(Content(i), metadata)]]

------------------------------------------------------------------------------
(* EmbeddingBatcher *)

\* A vector is kept as its length and the chunk it was computed from.
Vector(n, content) == [dim |-> n, of |-> content]

\* the classes of the provider's own failures
ProviderErrors == {"RuntimeError", "TimeoutError"}

\* What the provider answers to one embed_documents call: it fails, raising
\* `error`, or it returns one vector per chunk, those at the indexes in
\* `short` one too short.
ProviderAnswers ==
    [fails : BOOLEAN, error : ProviderErrors, short : SUBSET (1..MaxChunks)]

ProviderVectors(chunks, answer) ==
    [i \in 1..Len(chunks) |->
        Vector(IF i \in answer.short THEN EmbeddingDim - 1 ELSE EmbeddingDim,
               chunks[i])]

\* A variant of the check of the lengths that looks at the first vector only.
FirstBadHeadOnly(vectors) ==
    IF vectors # <<>> /\ vectors[1].dim # EmbeddingDim THEN 1 ELSE 0

\* index of the first vector of the wrong length, 0 when there is none
FirstBad(vectors) ==
    LET bad == {i \in 1..Len(vectors) : vectors[i].dim # EmbeddingDim}
    IN IF bad = {} THEN 0 ELSE CHOOSE i \in bad : \A j \in bad : i <= j

\* the class raised by the except clause of embed_chunks: str() is given the
\* exception as its encoding argument and raises before anything is logged
ProviderFailureRaises == "TypeError"

\* A variant of embed_chunks without the check of the vectors' lengths.
embed_chunks_unvalidated(chunks, answer) ==
    IF answer.fails
    THEN [exc |-> ProviderFailureRaises, vectors |-> <<>>, bad |-> 0, log |-> {}]
    ELSE [exc |-> "none", vectors |-> ProviderVectors(chunks, answer), bad |-> 0,
          log |-> {}]

embed_chunks(chunks, answer) ==
    IF answer.fails
    THEN [exc |-> ProviderFailureRaises, vectors |-> <<>>, bad |-> 0, log |-> {}]
    ELSE LET vectors == ProviderVectors(chunks, answer)
             b == FirstBad(vectors)
         IN IF b # 0
            THEN [exc |-> "ValueError", vectors |-> <<>>, bad |-> b - 1, log |-> {}]
            ELSE [exc |-> "none", vectors |-> vectors, bad |-> 0, log |-> {}]

------------------------------------------------------------------------------
(* VectorUpsertPipeline *)

\* f"{base_id}": None is formatted as the text "None"
Format(v) == IF v = NoneVal THEN "None" ELSE v

\* A variant of the id that numbers a point after the points already stored:
\* a fresh id at every upload.
PointIdFresh(base_id, i) == <<Format(base_id), i + Cardinality(store)>>

\* uuid5(NAMESPACE_DNS, f"{base_id}_chunk_{i}"): one id per formatted text
PointId(base_id, i) == <<Format(base_id), i>>

\* not value: None and the empty text are falsy
Falsy(v) == v = NoneVal \/ v = ""

\* A variant of build_point without the check of the title.
build_point_untitled(doc, embedding, base_id, i) ==
    IF embedding.dim # EmbeddingDim
    THEN [exc |-> "ValueError", point |-> NoneVal]
    ELSE [exc |-> "none",
          point |-> [id |-> PointId(base_id, i),
                     vector |-> embedding,
                     payload |-> [metadata |-> doc.metadata,
                                  chunk_index |-> i,
                                  text |-> doc.page_content]]]

\* A variant of build_point without the check of the vector's length.
build_point_unsized(doc, embedding, base_id, i) ==
    IF Falsy(MetaGet(doc.metadata, "title"))
    THEN [exc |-> "KeyError", point |-> NoneVal]
    ELSE [exc |-> "none",
          point |-> [id |-> PointId(base_id, i),
                     vector |-> embedding,
                     payload |-> [metadata |-> doc.metadata,
                                  chunk_index |-> i,
                                  text |-> doc.page_content]]]

build_point(doc, embedding, base_id, i) ==
    IF embedding.dim # EmbeddingDim
    THEN [exc |-> "ValueError", point |-> NoneVal]
    ELSE IF Falsy(MetaGet(doc.metadata, "title"))
    THEN [exc |-> "KeyError", point |-> NoneVal]
    ELSE [exc |-> "none",
          point |-> [id |-> PointId(base_id, i),
                     vector |-> embedding,
                     payload |-> [metadata |-> doc.metadata,
                                  chunk_index |-> i,
                                  text |-> doc.page_content]]]

\* the outcome of the try block for chunk i (1-based here, i - 1 in the code)
ChunkOutcome(docs, embeddings, base_id, i) ==
    IF i > Len(embeddings)
    THEN [exc |-> "IndexError", point |-> NoneVal]
    ELSE build_point(docs[i], embeddings[i], base_id, i - 1)

\* the loop over enumerate(docs): a chunk whose try block raises (IndexError,
\* ValueError, KeyError: each caught and logged) adds no point
RECURSIVE BuildPoints(_, _, _, _)
BuildPoints(docs, embeddings, base_id, i) ==
    IF i > Len(docs) THEN <<>>
    ELSE LET r == ChunkOutcome(docs, embeddings, base_id, i)
             rest == BuildPoints(docs, embeddings, base_id, i + 1)
         IN IF r.exc = "none" THEN <<r.point>> \o rest ELSE rest

\* A variant of the number of batches that leaves out a last batch of fewer
\* than batch_size points.
NumBatchesFloor(n) == n \div BatchSize

\* range(0, n, batch_size): the number of batches
NumBatches(n) == (n + BatchSize - 1) \div BatchSize

\* points[i:i + batch_size] of batch k (k = 1, 2, ...)
Batch(points, k) ==
    SubSeq(points, (k - 1) * BatchSize + 1,
           IF k * BatchSize < Len(points) THEN k * BatchSize ELSE Len(points))

Ids(batch) == {batch[j].id : j \in 1..Len(batch)}

\* client.upsert: a point replaces the stored point of the same id
Upsert(st, batch) ==
    {p \in st : p.id \notin Ids(batch)} \cup {batch[j] : j \in 1..Len(batch)}

\* What the store answers to the upsert calls of one upload: every call
\* succeeds (failAt = 0), or call number failAt raises `kind`.
StoreFailures == {"UnexpectedResponse", "Exception"}
MaxBatches == (MaxChunks + BatchSize - 1) \div BatchSize
StoreAnswers == [failAt : 0..MaxBatches, kind : StoreFailures]

\* the class upload_docs_to_qdrant raises for a failed upsert
UpsertRaises(kind) ==
    IF Catches({"UnexpectedResponse"}, kind) THEN "RuntimeError"
    ELSE "ConnectionError"

\* A variant of the batch loop that goes on with the next batch after a
\* failed one and raises once the last batch is done.
RECURSIVE WriteBatchesContinue(_, _, _, _)
WriteBatchesContinue(st, points, k, answer) ==
    IF k > NumBatches(Len(points))
    THEN [exc |-> IF answer.failAt # 0 THEN UpsertRaises(answer.kind) ELSE "none",
          store |-> st, upserts |-> <<>>]
    ELSE LET failed == answer.failAt = k
             r == WriteBatchesContinue(IF failed THEN st
                                       ELSE Upsert(st, Batch(points, k)),
                                       points, k + 1, answer)
         IN [exc |-> r.exc, store |-> r.store,
             upserts |-> <<[ids |-> Ids(Batch(points, k)), ok |-> ~failed,
                            batch |-> Batch(points, k)]>> \o r.upserts]

RECURSIVE WriteBatches(_, _, _, _)
WriteBatches(st, points, k, answer) ==
    IF k > NumBatches(Len(points))
    THEN [exc |-> "none", store |-> st, upserts |-> <<>>]
    ELSE IF answer.failAt = k
    THEN [exc |-> UpsertRaises(answer.kind), store |-> st,
          upserts |-> <<[ids |-> Ids(Batch(points, k)), ok |-> FALSE,
                         batch |-> Batch(points, k)]>>]
    ELSE LET r == WriteBatches(Upsert(st, Batch(points, k)), points, k + 1, answer)
         IN [exc |-> r.exc, store |-> r.store,
             upserts |-> <<[ids |-> Ids(Batch(points, k)), ok |-> TRUE,
                            batch |-> Batch(points, k)]>> \o r.upserts]

\* doc.metadata.get("file") of the chunks that were dropped
DroppedLog(docs, embeddings, base_id) ==
    {[level |-> "warning", msg |-> "Problem with chunk",
      arg |-> IF "file" \in DOMAIN docs[i].metadata THEN docs[i].metadata["file"]
              ELSE <<>>] :
        i \in {j \in 1..Len(docs) : ChunkOutcome(docs, embeddings, base_id, j).exc # "none"}}

\* A variant of upload_docs_to_qdrant that raises when no point was built.
upload_docs_to_qdrant_strict(docs, embeddings, base_id, st, answer) ==
    LET points == BuildPoints(docs, embeddings, base_id, 1)
        dropped == DroppedLog(docs, embeddings, base_id)
    IN IF points # <<>>
       THEN LET w == WriteBatches(st, points, 1, answer)
            IN [exc |-> w.exc, store |-> w.store, upserts |-> w.upserts,
                log |-> dropped]
       ELSE [exc |-> "ValueError", store |-> st, upserts |-> <<>>, log |-> dropped]

upload_docs_to_qdrant(docs, embeddings, base_id, st, answer) ==
    LET points == BuildPoints(docs, embeddings, base_id, 1)
        dropped == DroppedLog(docs, embeddings, base_id)
    IN IF points # <<>>
       THEN LET w == WriteBatches(st, points, 1, answer)
            IN [exc |-> w.exc, store |-> w.store, upserts |-> w.upserts,
                log |-> dropped]
       ELSE [exc |-> "none", store |-> st, upserts |-> <<>>,
             log |-> dropped \cup {[level |-> "info",
                                    msg |-> "No valid points to upload.",
                                    arg |-> <<>>]}]

------------------------------------------------------------------------------
(* initiate_qdrant_session *)

CollectionNames == {"pmc", "other"}

\* a collection of the server: its vector size, its distance and its points
Collection(size, distance, points) ==
    [exists |-> TRUE, size |-> size, distance |-> distance, points |-> points]

NoCollection == [exists |-> FALSE, size |-> 0, distance |-> "none", points |-> {}]

NoCollections == [n \in CollectionNames |-> NoCollection]

\* client.recreate_collection: the collection of that name, if there is one,
\* is deleted, and an empty one is created
recreate_collection(cols, name, size, distance) ==
    [cols EXCEPT ![name] = Collection(size, distance, {})]

\* What the environment gives to one call: whether QDRANT_HOST and
\* QDRANT_API_KEY are set, and the step of the client that fails, if one does.
SessionFaults == {"none", "connect", "get_collections", "recreate_collection"}

SessionEnvs == [host : BOOLEAN, key : BOOLEAN, fault : SessionFaults]

\* A variant of initiate_qdrant_session that recreates the collection
\* whether or not one of that name exists.
initiate_qdrant_session_always(collection_name, env, cols) ==
    IF ~env.host \/ ~env.key
    THEN [exc |-> "ValueError", collections |-> cols, recreated |-> FALSE]
    ELSE IF env.fault = "connect"
    THEN [exc |-> "ConnectionError", collections |-> cols, recreated |-> FALSE]
    ELSE IF env.fault \in {"get_collections", "recreate_collection"}
    THEN [exc |-> "RuntimeError", collections |-> cols, recreated |-> FALSE]
    ELSE [exc |-> "none",
          collections |-> recreate_collection(cols, collection_name,
                                              EmbeddingDim, "Cosine"),
          recreated |-> TRUE]

initiate_qdrant_session(collection_name, env, cols) ==
    IF ~env.host \/ ~env.key
    THEN [exc |-> "ValueError", collections |-> cols, recreated |-> FALSE]
    ELSE IF env.fault = "connect"
    THEN [exc |-> "ConnectionError", collections |-> cols, recreated |-> FALSE]
    ELSE IF env.fault = "get_collections"
    THEN [exc |-> "RuntimeError", collections |-> cols, recreated |-> FALSE]
    ELSE IF cols[collection_name].exists
    THEN [exc |-> "none", collections |-> cols, recreated |-> FALSE]
    ELSE IF env.fault = "recreate_collection"
    THEN [exc |-> "RuntimeError", collections |-> cols, recreated |-> FALSE]
    ELSE [exc |-> "none",
          collections |-> recreate_collection(cols, collection_name,
                                              EmbeddingDim, "Cosine"),
          recreated |-> TRUE]

------------------------------------------------------------------------------

(* embed_docs and process_xml_member *)

Call(op, ids, ok) == [op |-> op, ids |-> ids, ok |-> ok]

UpsertCalls(upserts) ==
    [k \in 1..Len(upserts) |-> Call("upsert", upserts[k].ids, upserts[k].ok)]

\* the contents that are not empty after strip(), in order
NonBlank(docs) ==
    LET keep == SelectSeq([i \in 1..Len(docs) |-> docs[i].page_content],
                          LAMBDA c : ~c.blank)
    IN keep

embed_docs(docs, st, provider, answer) ==
    IF docs = <<>>
    THEN [exc |-> "none", store |-> st, calls |-> <<>>,
          log |-> {[level |-> "warning", msg |-> "No documents provided for embedding.",
                    arg |-> <<>>]}]
    ELSE LET chunks == NonBlank(docs)
             e == embed_chunks(chunks, provider)
             embedCall == <<Call("embed", {}, e.exc = "none")>>
             emptyLog == IF chunks = <<>>
                         THEN {[level |-> "warning",
                                msg |-> "All provided documents have empty content.",
                                arg |-> <<>>]}
                         ELSE {}
         IN IF e.exc # "none"
            THEN [exc |-> e.exc, store |-> st, calls |-> embedCall,
                  log |-> emptyLog \cup e.log]
            ELSE IF "pmid" \notin DOMAIN docs[1].metadata
            THEN [exc |-> "KeyError", store |-> st, calls |-> embedCall,
                  log |-> emptyLog]
            ELSE LET u == upload_docs_to_qdrant(docs, e.vectors,
                                                docs[1].metadata["pmid"], st, answer)
                 IN [exc |-> u.exc, store |-> u.store,
                     calls |-> embedCall \o UpsertCalls(u.upserts),
                     log |-> emptyLog \cup u.log]

\* A variant of the except clauses without the one for ValueError.
MemberHandlerNoValueError(e) ==
    IF Catches({"XMLSyntaxError"}, e) THEN "XML parsing error in"
    ELSE IF Catches({"UnicodeDecodeError"}, e) THEN "Encoding error in"
    ELSE ""

\* the except clauses of process_xml_member, in order: the message logged
\* for an exception of class e, "" when no clause catches it
MemberHandler(e) ==
    IF Catches({"XMLSyntaxError"}, e) THEN "XML parsing error in"
    ELSE IF Catches({"UnicodeDecodeError"}, e) THEN "Encoding error in"
    ELSE IF Catches({"ValueError"}, e) THEN "Data error in"
    ELSE ""

\* exc: the class that leaves process_xml_member ("none": it returns);
\* raised: the class raised inside its try block ("none": none)
\* A variant of the closing of the stream that is left out when an
\* exception leaves process_xml_member.
StreamClosedOnReturn(e) == e = "none" \/ MemberHandler(e) # ""

\* finally: fileobj.close(), whatever the try block raised
StreamClosed(e) == TRUE

process_xml_member(doc, member_name, st, provider, answer) ==
    LET x == extract_from_xml(Stream(doc), member_name)
        c == IF x.exc # "none"
             THEN [exc |-> x.exc, docs |-> <<>>]
             ELSE text_chunker(x.text, x.metadata)
        e == IF c.exc # "none"
             THEN [exc |-> c.exc, store |-> st, calls |-> <<>>, log |-> {}]
             ELSE embed_docs(c.docs, st, provider, answer)
        caught == e.exc # "none" /\ MemberHandler(e.exc) # ""
    IN [exc |-> IF caught THEN "none" ELSE e.exc,
        raised |-> e.exc,
        closed |-> StreamClosed(e.exc),
        store |-> e.store,
        calls |-> e.calls,
        log |-> x.log \cup e.log \cup
                IF caught
                THEN {[level |-> "error", msg |-> MemberHandler(e.exc),
                       arg |-> member_name]}
                ELSE {}]

------------------------------------------------------------------------------
(* CheckpointStore *)

\* The checkpoint file: absent, or a JSON array of member names.
File(data) == [exists |-> TRUE, data |-> data]

NoFile == [exists |-> FALSE, data |-> <<>>]

\* list(names): the names in some order, each once
Orderings(names) ==
    {q \in [1..Cardinality(names) -> names] : \A x \in names : \E i \in DOMAIN q : q[i] = x}

\* load_checkpoint(): set(json.load(file)), the empty set when there is no file
load_checkpoint(file) ==
    IF file.exists THEN {file.data[i] : i \in DOMAIN file.data} ELSE {}

\* A variant of save_checkpoint that keeps the names the file already holds.
save_checkpoint_merging(names, file) ==
    {File(q) : q \in Orderings(names \cup load_checkpoint(file))}

\* save_checkpoint(names): the files json.dump(list(names)) may leave in place
\* of `file`
save_checkpoint(names, file) == {File(q) : q \in Orderings(names)}

------------------------------------------------------------------------------

(* The archives, documents and members the model draws from *)

Doc(wellformed, nchunks, title, pmid) ==
    [wellformed |-> wellformed, nchunks |-> nchunks, title |-> title,
     journal |-> IF wellformed THEN "J" ELSE NoneVal, year |-> NoneVal,
     doi |-> NoneVal, pmid |-> pmid]

Malformed == Doc(FALSE, 0, NoneVal, NoneVal)

\* a malformed document, and well-formed ones: an empty body, bodies of one
\* and of MaxChunks chunks, one without article-title, two without pmid
Docs ==
    {Malformed,
     Doc(TRUE, 0, "T", "p1"),
     Doc(TRUE, 1, "T", "p1"),
     Doc(TRUE, MaxChunks, "T", "p1"),
     Doc(TRUE, 1, NoneVal, "p1"),
     Doc(TRUE, 1, "T", NoneVal),
     Doc(TRUE, 1, "T2", NoneVal)}

Member(name, kind, doc) == [name |-> name, kind |-> kind, doc |-> doc]

Members ==
    {Member(<<"a.xml">>, "file", d) : d \in Docs}
    \cup {Member(<<"..", "a.xml">>, "file", Malformed),
          Member(<<"c.txt">>, "file", Malformed),
          Member(<<"B.XML">>, "sym", Malformed)}

Archives == UNION {[1..n -> Members] : n \in 0..MaxMembers}

\* extract_dir, as the caller of iterate_tar gives it
ExtractDir == <<"out">>

------------------------------------------------------------------------------
(* iterate_tar *)

NoGate == [applied |-> FALSE, stream |-> FALSE, exc |-> "none", log |-> {}]

NoGateIn == [member |-> Member(<<"c.txt">>, "file", Malformed), base_dir |-> <<>>,
             processed_files |-> {}]

NoLast == [member |-> 0, raised |-> "none", short |-> {}, held |-> FALSE]

NoOutcome == [end |-> "none", exc |-> "none", complete |-> FALSE]

NoUnitIn == [op |-> "none"]

NoUnitOut == [applied |-> FALSE]

Init ==
    /\ archive \in Archives
    /\ pc = "idle"
    /\ idx = 1
    /\ exc = "none"
    /\ log = {}
    /\ store = {}
    /\ calls = <<>>
    /\ gated = <<>>
    /\ streams = {}
    /\ openError = "none"
    /\ faults = 0
    /\ prev = NoOutcome
    /\ last = NoLast
    /\ checkpoint = NoFile
    /\ gateIn = NoGateIn
    /\ gateOut = NoGate
    /\ unitIn = NoUnitIn
    /\ unitOut = NoUnitOut
    /\ collections = NoCollections

gateVars == <<gateIn, gateOut>>

unitVars == <<unitIn, unitOut>>

harnessVars == <<gateVars, unitVars>>

\* A variant of the archive-level except clause that names two classes only.
ArchiveErrorsNarrow == {"FileNotFoundError", "PermissionError"}

\* the classes the except clause around the archive walk names
ArchiveErrors == {"FileNotFoundError", "PermissionError", "EOFError",
                  "ReadError", "TarError", "OSError"}

\* how the invocation that just ended went; complete: it returned after the
\* loop had gone through the whole archive
Outcome ==
    [end |-> pc, exc |-> exc,
     complete |-> pc = "returned" /\ openError = "none" /\ idx > Len(archive)]

\* iterate_tar is called (for the first time, or again over the same archive)
Invoke ==
    /\ pc \in {"idle", "returned", "raised"}
    /\ prev' = IF pc = "idle" THEN prev ELSE Outcome
    /\ pc' = "mkdir"
    /\ idx' = 1
    /\ exc' = "none"
    /\ log' = {}
    /\ calls' = <<>>
    /\ gated' = <<>>
    /\ openError' = "none"
    /\ last' = NoLast
    /\ UNCHANGED <<archive, store, streams, faults, checkpoint, harnessVars, collections>>

\* ensure_directory_creation(extract_dir), outside the try block: it logs and
\* re-raises
EnsureDirectory ==
    /\ pc = "mkdir"
    /\ \E e \in {"none", "PermissionError", "OSError"} :
        IF e = "none"
        THEN /\ pc' = "open"
             /\ UNCHANGED <<exc, log, faults>>
        ELSE /\ faults < MaxFaults
             /\ faults' = faults + 1
             /\ pc' = "raised"
             /\ exc' = e
             /\ log' = log \cup {[level |-> "error",
                                  msg |-> "error creating directory",
                                  arg |-> ExtractDir]}
    /\ UNCHANGED <<archive, idx, store, calls, gated, streams, openError,
                   prev, last, checkpoint, harnessVars, collections>>

ExtractionFailed == [level |-> "error", msg |-> "Extraction failed", arg |-> <<>>]

\* an exception of class e reaches the except clause around the archive
\* walk, having logged `logged` on its way
Leaves(e, logged) ==
    IF Catches(ArchiveErrors, e)
    THEN /\ pc' = "returned"
         /\ exc' = "none"
         /\ log' = log \cup logged \cup {ExtractionFailed}
    ELSE /\ pc' = "raised"
         /\ exc' = e
         /\ log' = log \cup logged

\* tarfile.open(tar_file_dir, "r:gz")
OpenErrors == {"FileNotFoundError", "PermissionError", "ReadError", "EOFError"}

OpenArchive ==
    /\ pc = "open"
    /\ \E e \in {"none"} \cup OpenErrors :
        /\ openError' = e
        /\ IF e = "none"
           THEN /\ pc' = "loop"
                /\ UNCHANGED <<exc, log, faults>>
           ELSE /\ faults < MaxFaults
                /\ faults' = faults + 1
                /\ Leaves(e, {})
    /\ UNCHANGED <<archive, idx, store, calls, gated, streams, prev, last,
                   checkpoint, harnessVars, collections>>

\* the except clause around the call of safe_extract_member
\* A variant of the loop that offers the same member again.
NextMemberSame(i) == i

\* for member in tar: the member after member i
NextMember(i) == i + 1

\* A variant of the loop without the except clause around the gate.
GateErrorsNone == {}

GateErrors == {"ValueError"}

\* one pass of the loop up to the call of process_xml_member
GateMember ==
    /\ pc = "loop"
    /\ idx <= Len(archive)
    /\ LET member == archive[idx]
           g == safe_extract_member(member, ExtractDir)
       IN /\ gated' = Append(gated, idx)
          /\ last' = NoLast
          /\ IF g.exc # "none"
             THEN IF Catches(GateErrors, g.exc)
                  THEN /\ log' = log \cup {[level |-> "error",
                                            msg |-> "Unsafe file path detected",
                                            arg |-> member.name]}
                       /\ idx' = NextMember(idx)
                       /\ UNCHANGED <<pc, exc, streams>>
                  ELSE /\ Leaves(g.exc, {})
                       /\ UNCHANGED <<idx, streams>>
             ELSE /\ log' = log \cup g.log
                  /\ UNCHANGED exc
                  /\ IF g.stream
                     THEN /\ pc' = "process"
                          /\ streams' = streams \cup {idx}
                          /\ UNCHANGED idx
                     ELSE /\ idx' = NextMember(idx)
                          /\ UNCHANGED <<pc, streams>>
    /\ UNCHANGED <<archive, store, calls, openError, faults, prev,
                   checkpoint, harnessVars, collections>>

\* the failures in the answers the environment gives to one member
Faults(provider, answer) ==
    (IF provider.fails \/ provider.short # {} THEN 1 ELSE 0)
    + (IF answer.failAt # 0 THEN 1 ELSE 0)

\* the store holds the point whose id is that of the document's first chunk
FirstChunkHeld(doc, st) ==
    doc.wellformed /\ \E p \in st : p.id = PointId(doc.pmid, 0)

\* process_xml_member(fileobj, member.name, client, collection_name) and the
\* end of the pass
ProcessMember ==
    /\ pc = "process"
    /\ LET member == archive[idx]
           n == member.doc.nchunks
       IN \E provider \in ProviderAnswers, answer \in StoreAnswers :
            /\ provider.short \subseteq 1..n
            /\ provider.fails => provider.short = {}
            /\ ~provider.fails => provider.error = "RuntimeError"
            /\ answer.failAt <= NumBatches(n)
            /\ answer.failAt = 0 => answer.kind = "Exception"
            /\ faults' = faults + Faults(provider, answer)
            /\ faults' <= MaxFaults
            /\ LET r == process_xml_member(member.doc, member.name, store,
                                           provider, answer)
               IN /\ store' = r.store
                  /\ calls' = calls \o [k \in 1..Len(r.calls) |->
                                          r.calls[k] @@ [member |-> idx]]
                  /\ streams' = IF r.closed THEN streams \ {idx} ELSE streams
                  /\ last' = [member |-> idx, raised |-> r.raised,
                              short |-> provider.short,
                              held |-> FirstChunkHeld(member.doc, store)]
                  /\ IF r.exc = "none"
                     THEN /\ pc' = "loop"
                          /\ idx' = NextMember(idx)
                          /\ log' = log \cup r.log
                          /\ UNCHANGED exc
                     ELSE /\ idx' = idx
                          /\ Leaves(r.exc, r.log)
    /\ UNCHANGED <<archive, gated, openError, prev, checkpoint, harnessVars, collections>>

\* the archive has no further member: the with block ends, iterate_tar returns
Exhausted ==
    /\ pc = "loop"
    /\ idx > Len(archive)
    /\ pc' = "returned"
    /\ last' = NoLast
    /\ UNCHANGED <<archive, idx, exc, log, store, calls, gated, streams,
                   openError, faults, prev, checkpoint, harnessVars, collections>>

Next ==
    \/ Invoke
    \/ EnsureDirectory
    \/ OpenArchive
    \/ GateMember
    \/ ProcessMember
    \/ Exhausted

Spec == Init /\ [][Next]_vars

------------------------------------------------------------------------------
(* The gate alone: safe_extract_member applied to one member *)

MaxDepth == 2

PathParts == {"..", "out", "a.xml", "B.XML", "c.txt"}

Kinds == {"file", "dir", "sym", "lnk", "fifo"}

\* relative names of up to MaxDepth components, and the same names made absolute
RelNames == UNION {[1..n -> PathParts] : n \in 1..MaxDepth}
GateNames == RelNames \cup {<<"/">> \o n : n \in RelNames}

GateMembers ==
    {Member(n, k, d) : n \in GateNames, k \in Kinds,
                       d \in {Malformed, Doc(TRUE, 1, "T", "p1")}}

BaseDirs == {<<"out">>, <<"..", "out">>}

GateInit ==
    /\ archive = <<>>
    /\ pc = "idle"
    /\ idx = 1
    /\ exc = "none"
    /\ log = {}
    /\ store = {}
    /\ calls = <<>>
    /\ gated = <<>>
    /\ streams = {}
    /\ openError = "none"
    /\ faults = 0
    /\ prev = NoOutcome
    /\ last = NoLast
    /\ checkpoint = NoFile
    /\ gateOut = NoGate
    /\ unitIn = NoUnitIn
    /\ unitOut = NoUnitOut
    /\ collections = NoCollections
    /\ \E m \in GateMembers, b \in BaseDirs :
         \E p \in SUBSET {m.name, <<"a.xml">>} :
            gateIn = [member |-> m, base_dir |-> b, processed_files |-> p]

ApplyGate ==
    /\ ~gateOut.applied
    /\ gateOut' = [applied |-> TRUE]
                  @@ safe_extract_member(gateIn.member, gateIn.base_dir)
    /\ UNCHANGED <<archive, pc, idx, exc, log, store, calls, gated, streams,
                   openError, faults, prev, last, checkpoint, gateIn, unitVars, collections>>

GateNext == ApplyGate

GateSpec == GateInit /\ [][GateNext]_vars

------------------------------------------------------------------------------
(* The functions alone: one call of a function on arguments drawn from a    *)
(* bounded set, the pipeline at rest                                        *)

mainVars == <<archive, pc, idx, exc, log, store, calls, gated, streams,
              openError, faults, prev, last, checkpoint>>

\* no invocation of iterate_tar has begun
AtRest ==
    /\ archive = <<>>
    /\ pc = "idle"
    /\ idx = 1
    /\ exc = "none"
    /\ log = {}
    /\ store = {}
    /\ calls = <<>>
    /\ gated = <<>>
    /\ streams = {}
    /\ openError = "none"
    /\ faults = 0
    /\ prev = NoOutcome
    /\ last = NoLast
    /\ gateIn = NoGateIn
    /\ gateOut = NoGate

\* the server is not looked at
ServerAtRest == collections = NoCollections

------------------------------------------------------------------------------
(* extract_from_xml alone *)

\* documents with and without article-title and pmid, bodies of 0..MaxChunks
\* chunks
ExtractDocs ==
    {Malformed} \cup
    {Doc(TRUE, n, t, p) : n \in 0..MaxChunks, t \in {"T", NoneVal},
                          p \in {"p1", NoneVal}}

\* what opening or reading the source may raise
SourceFailures ==
    {"none", "FileNotFoundError", "PermissionError", "IsADirectoryError", "OSError"}

Sources ==
    {Source(r, f, d) : r \in {<<"<BytesIO>">>, <<"missing.xml">>},
                       f \in SourceFailures, d \in ExtractDocs}

ExtractInit ==
    /\ AtRest
    /\ ServerAtRest
    /\ checkpoint = NoFile
    /\ unitOut = NoUnitOut
    /\ \E s \in Sources :
         unitIn = [op |-> "extract_from_xml", xml_source |-> s,
                   file_name |-> <<"a.xml">>]

ApplyExtract ==
    /\ ~unitOut.applied
    /\ unitOut' = [applied |-> TRUE]
                  @@ extract_from_xml(unitIn.xml_source, unitIn.file_name)
    /\ UNCHANGED <<mainVars, gateVars, unitIn, collections>>

ExtractNext == ApplyExtract

ExtractSpec == ExtractInit /\ [][ExtractNext]_vars

------------------------------------------------------------------------------

(* embed_chunks alone *)

\* the texts handed to the provider: up to MaxChunks chunks
ChunkLists == UNION {[1..n -> {Content(i) : i \in 1..MaxChunks}] : n \in 0..MaxChunks}

EmbedInit ==
    /\ AtRest
    /\ ServerAtRest
    /\ checkpoint = NoFile
    /\ unitOut = NoUnitOut
    /\ \E c \in ChunkLists, a \in ProviderAnswers :
         /\ a.short \subseteq 1..Len(c)
         /\ a.fails => a.short = {}
         /\ ~a.fails => a.error = "RuntimeError"
         /\ unitIn = [op |-> "embed_chunks", chunks |-> c, provider |-> a]

ApplyEmbedChunks ==
    /\ ~unitOut.applied
    /\ unitOut' = [applied |-> TRUE] @@ embed_chunks(unitIn.chunks, unitIn.provider)
    /\ UNCHANGED <<mainVars, gateVars, unitIn, collections>>

EmbedNext == ApplyEmbedChunks

EmbedSpec == EmbedInit /\ [][EmbedNext]_vars

------------------------------------------------------------------------------

(* embed_docs alone: chunks of one document, some of them blank *)

\* a content that is empty after strip()
Blank(i) == [id |-> i, blank |-> TRUE]

TitledMeta ==
    [k \in MetaKeys |-> IF k = "file" THEN <<"a.xml">>
                        ELSE IF k = "title" THEN "T" ELSE "x"]

\* lists of chunks with a title and a pmid, each chunk blank or not
BlankableDocs ==
    UNION {{[i \in 1..n |-> Document(IF i \in B THEN Blank(i) ELSE Content(i),
                                     TitledMeta)] : B \in SUBSET (1..n)} :
           n \in 0..MaxChunks}

EmbedDocsInit ==
    /\ AtRest
    /\ ServerAtRest
    /\ checkpoint = NoFile
    /\ unitOut = NoUnitOut
    /\ \E d \in BlankableDocs, a \in ProviderAnswers, s \in StoreAnswers :
         /\ a.short \subseteq 1..Len(NonBlank(d))
         /\ a.fails => a.short = {}
         /\ ~a.fails => a.error = "RuntimeError"
         /\ s.failAt = 0 => s.kind = "Exception"
         /\ unitIn = [op |-> "embed_docs", docs |-> d, provider |-> a, answer |-> s]

\* embed_docs(docs, client, collection_name) on an empty collection
ApplyEmbedDocs ==
    /\ ~unitOut.applied
    /\ unitOut' = [applied |-> TRUE]
                  @@ embed_docs(unitIn.docs, {}, unitIn.provider, unitIn.answer)
    /\ UNCHANGED <<mainVars, gateVars, unitIn, collections>>

EmbedDocsNext == ApplyEmbedDocs

EmbedDocsSpec == EmbedDocsInit /\ [][EmbedDocsNext]_vars

------------------------------------------------------------------------------

(* upload_docs_to_qdrant alone: an upload, then the same upload again *)

\* metadata of a chunk: with a title, with an empty one, with None, or
\* without the key
ChunkMetas ==
    {[k \in MetaKeys |-> IF k = "file" THEN <<"a.xml">>
                         ELSE IF k = "title" THEN t ELSE "x"] : t \in {"T", "", NoneVal}}
    \cup {[k \in MetaKeys \ {"title"} |-> IF k = "file" THEN <<"a.xml">> ELSE "x"]}

\* the chunks of one document, each with its own metadata
ChunkDocs ==
    UNION {{[i \in 1..n |-> Document(Content(i), m[i])] : m \in [1..n -> ChunkMetas]} :
           n \in 0..MaxChunks}

\* one vector per chunk, of the configured length or one too short; or the
\* same list without its last vector
EmbeddingLists(docs) ==
    LET full == {[i \in 1..Len(docs) |->
                    Vector(IF i \in s THEN EmbeddingDim - 1 ELSE EmbeddingDim,
                           docs[i].page_content)] : s \in SUBSET (1..Len(docs))}
    IN full \cup {SubSeq(v, 1, Len(v) - 1) : v \in {w \in full : w # <<>>}}

BaseIds == {"p1", NoneVal}

UploadInit ==
    /\ AtRest
    /\ ServerAtRest
    /\ checkpoint = NoFile
    /\ unitOut = [applied |-> FALSE, round |-> 0]
    /\ \E d \in ChunkDocs, b \in BaseIds :
         \E e \in EmbeddingLists(d) :
            unitIn = [op |-> "upload_docs_to_qdrant", docs |-> d,
                      embeddings |-> e, base_id |-> b]

\* the answers of the store that fit the batches of the call
FittingAnswers ==
    {a \in StoreAnswers :
        /\ a.failAt <= NumBatches(Len(BuildPoints(unitIn.docs, unitIn.embeddings,
                                                  unitIn.base_id, 1)))
        /\ a.failAt = 0 => a.kind = "Exception"}

\* upload_docs_to_qdrant(docs, embeddings, base_id, client, collection_name);
\* a second call is given the arguments of the first
Upload ==
    /\ unitOut.round < 2
    /\ \E a \in FittingAnswers :
         LET r == upload_docs_to_qdrant(unitIn.docs, unitIn.embeddings,
                                        unitIn.base_id, store, a)
         IN /\ store' = r.store
            /\ unitOut' = [applied |-> TRUE, round |-> unitOut.round + 1,
                           answer |-> a, before |-> store,
                           first |-> IF unitOut.round = 0 THEN r.exc
                                     ELSE unitOut.first,
                           exc |-> r.exc, upserts |-> r.upserts, log |-> r.log]
    /\ UNCHANGED <<archive, pc, idx, exc, log, calls, gated, streams, openError,
                   faults, prev, last, checkpoint, gateVars, unitIn, collections>>

UploadNext == Upload

UploadSpec == UploadInit /\ [][UploadNext]_vars

------------------------------------------------------------------------------

(* The checkpoint store alone: saves and loads in any order *)

CheckpointNames == {<<"a.xml">>, <<"B.XML">>, <<"out", "a.xml">>}

\* no file, or a file left by an earlier run or written by hand (a name may
\* be in it twice)
FirstFiles ==
    {NoFile, File(<<>>), File(<<<<"old.xml">>>>),
     File(<<<<"old.xml">>, <<"a.xml">>>>), File(<<<<"a.xml">>, <<"a.xml">>>>)}

\* saved: the last save_checkpoint call, prior the file it found
NoSave == [done |-> FALSE, names |-> {}, prior |-> NoFile]

CheckpointInit ==
    /\ AtRest
    /\ ServerAtRest
    /\ checkpoint \in FirstFiles
    /\ unitIn = [op |-> "none", names |-> {}]
    /\ unitOut = [applied |-> FALSE, result |-> {}, saved |-> NoSave]

SaveCheckpoint ==
    /\ \E names \in SUBSET CheckpointNames :
         /\ checkpoint' \in save_checkpoint(names, checkpoint)
         /\ unitIn' = [op |-> "save_checkpoint", names |-> names]
         /\ unitOut' = [applied |-> TRUE, result |-> {},
                        saved |-> [done |-> TRUE, names |-> names,
                                   prior |-> checkpoint]]
    /\ UNCHANGED <<archive, pc, idx, exc, log, store, calls, gated, streams,
                   openError, faults, prev, last, gateVars, collections>>

LoadCheckpoint ==
    /\ unitIn' = [op |-> "load_checkpoint", names |-> {}]
    /\ unitOut' = [applied |-> TRUE, result |-> load_checkpoint(checkpoint),
                   saved |-> unitOut.saved]
    /\ UNCHANGED <<archive, pc, idx, exc, log, store, calls, gated, streams,
                   openError, faults, prev, last, checkpoint, gateVars, collections>>

CheckpointNext == SaveCheckpoint \/ LoadCheckpoint

CheckpointSpec == CheckpointInit /\ [][CheckpointNext]_vars

------------------------------------------------------------------------------

(* Sessions alone: session initialisations, with points stored in between *)

\* the points a run stores in a collection, by id
SessionPoints == {1, 2}

\* collections made by other programs have a vector size and distance of
\* their own
FirstCollections ==
    {NoCollections,
     [NoCollections EXCEPT !["other"] = Collection(EmbeddingDim - 1, "Dot", {1})],
     [NoCollections EXCEPT !["pmc"] = Collection(EmbeddingDim - 1, "Dot", {})]}

NoSession == [applied |-> FALSE, exc |-> "none", recreated |-> FALSE]

NoSessionIn == [op |-> "none", collection_name |-> "pmc",
                env |-> [host |-> TRUE, key |-> TRUE, fault |-> "none"],
                before |-> NoCollections]

SessionInit ==
    /\ AtRest
    /\ checkpoint = NoFile
    /\ collections \in FirstCollections
    /\ unitIn = NoSessionIn
    /\ unitOut = NoSession

InitiateSession ==
    /\ \E name \in CollectionNames, env \in SessionEnvs :
         LET r == initiate_qdrant_session(name, env, collections)
         IN /\ collections' = r.collections
            /\ unitIn' = [op |-> "initiate_qdrant_session", collection_name |-> name,
                          env |-> env, before |-> collections]
            /\ unitOut' = [applied |-> TRUE, exc |-> r.exc, recreated |-> r.recreated]
    /\ UNCHANGED <<mainVars, gateVars>>

\* a run stores a point in a collection that exists
StorePoint ==
    /\ \E name \in CollectionNames, p \in SessionPoints :
         /\ collections[name].exists
         /\ p \notin collections[name].points
         /\ collections' = [collections EXCEPT ![name].points = @ \cup {p}]
    /\ unitIn' = NoSessionIn
    /\ unitOut' = NoSession
    /\ UNCHANGED <<mainVars, gateVars>>

SessionNext == InitiateSession \/ StorePoint

SessionSpec == SessionInit /\ [][SessionNext]_vars

------------------------------------------------------------------------------

(* Helpers of the properties *)

UpsertCallsOf(i) == {k \in 1..Len(calls) : calls[k].op = "upsert" /\ calls[k].member = i}

AnyUpsert == \E k \in 1..Len(calls) : calls[k].op = "upsert"

\* the gate of iterate_tar let member i through
LetThrough(i) == safe_extract_member(archive[i], ExtractDir).stream

WasGated(i) == \E k \in 1..Len(gated) : gated[k] = i

Ended == pc \in {"returned", "raised"}

DataError(name) == [level |-> "error", msg |-> "Data error in", arg |-> name]

\* the path of the member handed to the gate lies outside base_dir
GateOutside ==
    ~StartsWithDir(AbsPath(PathJoin(gateIn.base_dir, gateIn.member.name)),
                   AbsPath(gateIn.base_dir))

GateLink == issym(gateIn.member) \/ islnk(gateIn.member)

LinkWarning == [level |-> "warning", msg |-> "Skipping symbolic link in tar",
                arg |-> gateIn.member.name]

------------------------------------------------------------------------------
(* Properties *)

\* C1: an invocation of iterate_tar that follows a completed one over the
\* same archive issues no upsert call.
C1_SecondRunNoUpsert == prev.complete => ~AnyUpsert

\* C2: once the processing of a member the gate let through has ended, its
\* name is in the persisted checkpoint set before the next member is gated.
C2_ProcessedIsCheckpointed ==
    \A i \in 1..Len(archive) :
        (WasGated(i) /\ LetThrough(i) /\ (i < idx \/ Ended))
            => archive[i].name \in load_checkpoint(checkpoint)

\* C3: when no answer of the environment fails, an invocation that let a
\* member with malformed XML through has, once it ends, gated every member
\* that follows it in the archive.
C3_MalformedDoesNotStopWalk ==
    \A i \in 1..Len(archive) :
        (Ended /\ faults = 0 /\ WasGated(i) /\ LetThrough(i)
               /\ ~archive[i].doc.wellformed)
            => \A j \in (i + 1)..Len(archive) : WasGated(j)

\* C4 (as claimed): whatever exception the chunking, embedding or upsert step
\* of a member raises, iterate_tar continues with the next member.
C4_EveryFailureContinues ==
    last.raised # "none" => (pc = "loop" /\ idx = last.member + 1 /\ exc = "none")

\* C4 (amended): a ValueError raised by a member's steps is caught at the
\* per-member boundary and iterate_tar continues with the next member; a
\* TypeError or RuntimeError leaves iterate_tar, and a ConnectionError ends
\* the walk in the handler of the archive errors.
C4_OnlyValueErrorContinues ==
    last.raised # "none" =>
        /\ last.raised \in {"ValueError", "TypeError", "RuntimeError", "ConnectionError"}
        /\ last.raised = "ValueError"
              => (pc = "loop" /\ idx = last.member + 1 /\ exc = "none")
        /\ last.raised \in {"TypeError", "RuntimeError"}
              => (pc = "raised" /\ exc = last.raised /\ idx = last.member)
        /\ last.raised = "ConnectionError"
              => (pc = "returned" /\ exc = "none" /\ idx = last.member
                  /\ ExtractionFailed \in log)

C4_Witness ==
    /\ last.raised = "ValueError"
    /\ pc = "loop"
    /\ idx = last.member + 1
    /\ idx <= Len(archive)

\* C5: after a failed upsert call the invocation ends with a raised
\* RuntimeError or ConnectionError; it never returns normally.
C5_StoreFailureSurfaces ==
    (\E k \in 1..Len(calls) : calls[k].op = "upsert" /\ ~calls[k].ok)
        => (pc = "raised" /\ exc \in {"RuntimeError", "ConnectionError"})

\* C6 (as claimed): when the provider returns a vector of the wrong length
\* for a member, the error leaves iterate_tar and no later member is gated.
C6_MismatchAbortsRun ==
    last.short # {} => (pc = "raised" /\ exc = "ValueError" /\ idx = last.member)

\* C6 (amended): when the provider returns a vector of the wrong length for a
\* member, embed_chunks raises ValueError, process_xml_member catches it and
\* logs a data error, the member upserts nothing, and iterate_tar goes on to
\* the next member.
C6_MismatchSkipsMember ==
    last.short # {} =>
        /\ last.raised = "ValueError"
        /\ pc = "loop" /\ idx = last.member + 1 /\ exc = "none"
        /\ DataError(archive[last.member].name) \in log
        /\ UpsertCallsOf(last.member) = {}

C6_Witness ==
    /\ last.short # {}
    /\ pc = "loop"
    /\ idx <= Len(archive)
    /\ LetThrough(idx)

\* C7: when tarfile.open fails, iterate_tar logs "Extraction failed", gates no
\* member, calls neither the provider nor the store, and returns.
C7_OpenFailureReturns ==
    openError # "none" =>
        /\ pc = "returned"
        /\ exc = "none"
        /\ ExtractionFailed \in log
        /\ gated = <<>>
        /\ calls = <<>>

C7_Witness == openError = "ReadError" /\ pc = "returned" /\ Len(archive) > 0

C9_LinkAlwaysWarns ==
    (gateOut.applied /\ GateLink)
        => (~gateOut.stream /\ LinkWarning \in gateOut.log)

\* C9 (amended): for every link the gate returns no stream and raises
\* nothing; it logs the warning with the member's name exactly when the name
\* ends in .xml (in any case of letters).
C9_LinkNoStream ==
    (gateOut.applied /\ GateLink) =>
        /\ ~gateOut.stream
        /\ gateOut.exc = "none"
        /\ LinkWarning \in gateOut.log <=> NameLowerEndsWithXml(gateIn.member.name)

C9_Witness ==
    /\ gateOut.applied
    /\ islnk(gateIn.member)
    /\ gateIn.member.name = <<"out", "B.XML">>
    /\ LinkWarning \in gateOut.log

\* C10: for a member whose name is in the processed set handed to the gate,
\* safe_extract_member returns no stream.
C10_ProcessedNameNoStream ==
    (gateOut.applied /\ gateIn.member.name \in gateIn.processed_files)
        => ~gateOut.stream

\* C11: for a member whose name does not end in .xml, whatever its kind and
\* its path, and for every directory, the gate returns (raises nothing) and
\* returns no stream.
C11_OtherNamesAndDirsNoStream ==
    (gateOut.applied
        /\ (~NameLowerEndsWithXml(gateIn.member.name) \/ isdir(gateIn.member)))
        => (~gateOut.stream /\ gateOut.exc = "none" /\ gateOut.log = {})

C11_Witness ==
    /\ gateOut.applied
    /\ isfile(gateIn.member)
    /\ gateIn.member.name = <<"out", "c.txt">>
    /\ gateIn.base_dir = <<"out">>
    /\ ~gateOut.stream

\* C12: extract_from_xml never raises. When the source cannot be opened,
\* read or parsed it logs an error and returns (None, {}); otherwise it
\* returns the text and a metadata mapping with exactly the keys file, title,
\* journal, year, doi, pmid, file being the given name and a field the
\* document lacks being None.
C12_ExtractNeverRaises ==
    unitOut.applied =>
        /\ unitOut.exc = "none"
        /\ ParseRaises(unitIn.xml_source) # "none" =>
              /\ unitOut.text = NoText
              /\ unitOut.metadata = EmptyMeta
              /\ \E l \in unitOut.log :
                    l.level = "error" /\ l.msg = "XML parsing error in"
        /\ ParseRaises(unitIn.xml_source) = "none" =>
              /\ unitOut.text.present
              /\ unitOut.log = {}
              /\ DOMAIN unitOut.metadata = MetaKeys
              /\ unitOut.metadata["file"] = unitIn.file_name
              /\ \A k \in MetaKeys \ {"file"} :
                    unitOut.metadata[k] = unitIn.xml_source.doc[k]

C12_Witness ==
    /\ unitOut.applied
    /\ unitIn.xml_source.failure = "FileNotFoundError"
    /\ unitOut.exc = "none"
    /\ unitOut.text = NoText

\* C13: no provider call and no upsert call is made for a member whose
\* document has no pmid.
C13_NoPmidNoCalls ==
    \A k \in 1..Len(calls) : archive[calls[k].member].doc.pmid # NoneVal

\* C14: when the store already holds the point with the id of a document's
\* first chunk, processing that document calls neither the provider nor
\* upsert.
C14_StoredDocumentSkipped ==
    last.held => \A k \in 1..Len(calls) : calls[k].member # last.member

\* the chunks of unitIn as the documents of one article with title and pmid
DocsOfChunks ==
    [i \in 1..Len(unitIn.chunks) |->
        Document(unitIn.chunks[i],
                 [k \in MetaKeys |-> IF k = "file" THEN <<"a.xml">> ELSE "x"])]

BatchFailed == [level |-> "error", msg |-> "Batch embedding failed", arg |-> <<>>]

\* C15: when a vector the provider returns has a length other than the
\* configured dimension, embed_chunks raises ValueError naming the first such
\* index and returns no vector, and embed_docs on those chunks makes no
\* upsert call and leaves the store as it was.
C15_WrongLengthRaisesForBatch ==
    (unitOut.applied /\ ~unitIn.provider.fails /\ unitIn.provider.short # {}) =>
        /\ unitOut.exc = "ValueError"
        /\ unitOut.vectors = <<>>
        /\ unitOut.bad + 1 \in unitIn.provider.short
        /\ \A j \in unitIn.provider.short : unitOut.bad + 1 <= j
        /\ \A a \in StoreAnswers :
             LET r == embed_docs(DocsOfChunks, {}, unitIn.provider, a)
             IN /\ r.exc = "ValueError"
                /\ r.store = {}
                /\ \A k \in 1..Len(r.calls) : r.calls[k].op # "upsert"

C15_Witness ==
    /\ unitOut.applied
    /\ Len(unitIn.chunks) = MaxChunks
    /\ unitIn.provider.short = {2}
    /\ unitOut.exc = "ValueError"
    /\ unitOut.bad = 1

\* C16: when the provider fails, embed_chunks logs "Batch embedding failed"
\* and raises the provider's own exception.
C16_ProviderErrorReraised ==
    (unitOut.applied /\ unitIn.provider.fails) =>
        /\ unitOut.exc = unitIn.provider.error
        /\ BatchFailed \in unitOut.log

\* The chunks of the upload at hand: i counts from 1, the code's index is i - 1.
Untitled(i) == Falsy(MetaGet(unitIn.docs[i].metadata, "title"))

Sized(i) == i <= Len(unitIn.embeddings) /\ unitIn.embeddings[i].dim = EmbeddingDim

Valid(i) == ~Untitled(i) /\ Sized(i)

\* the ids and the points passed to upsert by the call
PassedIds == UNION {unitOut.upserts[k].ids : k \in 1..Len(unitOut.upserts)}

PassedPoints ==
    UNION {{unitOut.upserts[k].batch[j] : j \in 1..Len(unitOut.upserts[k].batch)} :
           k \in 1..Len(unitOut.upserts)}

StoredIds(st) == {p.id : p \in st}

\* the point is the one build_point makes of a chunk of the call
WellBuilt(p) ==
    /\ p.vector.dim = EmbeddingDim
    /\ ~Falsy(MetaGet(p.payload.metadata, "title"))
    /\ p.payload.chunk_index \in 0..(Len(unitIn.docs) - 1)
    /\ LET i == p.payload.chunk_index + 1
       IN /\ p.payload.text = unitIn.docs[i].page_content
          /\ p.payload.metadata = unitIn.docs[i].metadata
          /\ p.vector = unitIn.embeddings[i]
          /\ p.id = PointId(unitIn.base_id, i - 1)

\* C17: the point of a chunk without a usable title is in no upsert call and
\* not in the store; the call raises only when the store fails, and when the
\* store does not fail every chunk with a title and a vector of the
\* configured length is passed to upsert and stored.
C17_UntitledDroppedOthersUploaded ==
    unitOut.applied =>
        /\ \A i \in 1..Len(unitIn.docs) :
              Untitled(i) =>
                 /\ PointId(unitIn.base_id, i - 1) \notin PassedIds
                 /\ PointId(unitIn.base_id, i - 1) \notin StoredIds(store)
        /\ unitOut.exc # "none" => unitOut.answer.failAt # 0
        /\ unitOut.answer.failAt = 0 =>
              /\ unitOut.exc = "none"
              /\ \A i \in 1..Len(unitIn.docs) :
                    Valid(i) =>
                       /\ PointId(unitIn.base_id, i - 1) \in PassedIds
                       /\ \E p \in store :
                             /\ p.id = PointId(unitIn.base_id, i - 1)
                             /\ p.payload.text = unitIn.docs[i].page_content

C17_Witness ==
    /\ unitOut.applied
    /\ unitOut.exc = "none"
    /\ Len(unitIn.docs) = MaxChunks
    /\ Untitled(2)
    /\ Valid(1) /\ Valid(MaxChunks)
    /\ Cardinality(store) = MaxChunks - 1

\* C18: every point passed to upsert, and every point in the store, has a
\* vector of the configured length and a payload with a non-empty title, the
\* index and the text of its chunk; no point is passed or stored for a chunk
\* whose vector or title fails the check.
C18_OnlyWellBuiltPointsWritten ==
    unitOut.applied =>
        /\ \A p \in PassedPoints \cup store : WellBuilt(p)
        /\ \A i \in 1..Len(unitIn.docs) :
              ~Valid(i) =>
                 \A p \in PassedPoints \cup store : p.payload.chunk_index # i - 1

C18_Witness ==
    /\ unitOut.applied
    /\ Len(unitIn.docs) = 2
    /\ Len(unitIn.embeddings) = 2
    /\ ~Sized(1) /\ Valid(2)
    /\ Cardinality(store) = 1

\* C19: the id of a point is a function of (base_id, chunk index), and after
\* an upload that did not fail, the same upload again leaves the set of
\* stored ids, and the number of stored points, as they were.
C19_SecondUploadAddsNothing ==
    (unitOut.applied /\ unitOut.round = 2 /\ unitOut.first = "none") =>
        /\ StoredIds(store) = StoredIds(unitOut.before)
        /\ Cardinality(store) = Cardinality(unitOut.before)
        /\ \A p \in PassedPoints :
              p.id = PointId(unitIn.base_id, p.payload.chunk_index)

C19_Witness ==
    /\ unitOut.applied
    /\ unitOut.round = 2
    /\ unitOut.first = "none"
    /\ unitOut.exc = "none"
    /\ Len(unitOut.upserts) = MaxBatches
    /\ Cardinality(store) = MaxChunks

\* C20: when the store fails at batch k, the call raises RuntimeError for a
\* bad response and ConnectionError for anything else, it has made k upsert
\* calls of which only the last failed, the points of the batches before k
\* are stored, and no point of batch k or of a later batch has been written.
C20_FailedBatchAbortsCall ==
    (unitOut.applied /\ unitOut.answer.failAt # 0) =>
        LET k == unitOut.answer.failAt
            points == BuildPoints(unitIn.docs, unitIn.embeddings, unitIn.base_id, 1)
        IN /\ unitOut.exc = IF unitOut.answer.kind = "UnexpectedResponse"
                            THEN "RuntimeError" ELSE "ConnectionError"
           /\ Len(unitOut.upserts) = k
           /\ ~unitOut.upserts[k].ok
           /\ \A j \in 1..(k - 1) :
                 /\ unitOut.upserts[j].ok
                 /\ unitOut.upserts[j].batch = Batch(points, j)
                 /\ \A n \in 1..Len(unitOut.upserts[j].batch) :
                       unitOut.upserts[j].batch[n] \in store
           /\ unitOut.upserts[k].batch = Batch(points, k)
           /\ \A n \in ((k - 1) * BatchSize + 1)..Len(points) :
                 points[n].id \in StoredIds(store)
                    => points[n].id \in StoredIds(unitOut.before)

C20_Witness ==
    /\ unitOut.applied
    /\ unitOut.round = 1
    /\ unitOut.answer.failAt = 2
    /\ unitOut.exc = "RuntimeError"
    /\ Cardinality(store) = BatchSize

NoValidPoints == [level |-> "info", msg |-> "No valid points to upload.", arg |-> <<>>]

\* C21: when no chunk of the call passes the checks of build_point (also when
\* there is no chunk), upload_docs_to_qdrant makes no upsert call, leaves the
\* store as it was, logs that there is no valid point and returns.
C21_NoValidPointIsNoOp ==
    (unitOut.applied /\ \A i \in 1..Len(unitIn.docs) : ~Valid(i)) =>
        /\ unitOut.upserts = <<>>
        /\ unitOut.exc = "none"
        /\ store = unitOut.before
        /\ NoValidPoints \in unitOut.log

C21_Witness ==
    /\ unitOut.applied
    /\ Len(unitIn.docs) = 2
    /\ Untitled(1)
    /\ ~Sized(2)
    /\ unitOut.upserts = <<>>
    /\ unitOut.exc = "none"

\* the chunks of the call that pass both checks, and the m-th of them
ValidChunks == {i \in 1..Len(unitIn.docs) : Valid(i)}

NthValid(m) ==
    CHOOSE i \in ValidChunks : Cardinality({v \in ValidChunks : v <= i}) = m

\* C22: when no upsert call fails, the n points of the valid chunks are
\* written in ceil(n / batch_size) calls, in chunk order, each point in one
\* call, every call but the last carrying batch_size points and the last at
\* least one and at most batch_size; when every chunk is valid as many points
\* are written as there are chunks.
C22_BatchesPartitionThePoints ==
    (unitOut.applied /\ unitOut.answer.failAt = 0) =>
        LET n == Cardinality(ValidChunks)
            c == Len(unitOut.upserts)
        IN /\ c * BatchSize >= n
           /\ (c - 1) * BatchSize < n \/ (c = 0 /\ n = 0)
           /\ \A k \in 1..c :
                 LET b == unitOut.upserts[k].batch
                 IN /\ unitOut.upserts[k].ok
                    /\ Len(b) >= 1 /\ Len(b) <= BatchSize
                    /\ k < c => Len(b) = BatchSize
                    /\ k = c => Len(b) = n - (c - 1) * BatchSize
                    /\ \A j \in 1..Len(b) :
                          /\ b[j].payload.chunk_index
                                = NthValid((k - 1) * BatchSize + j) - 1
                          /\ b[j] \in store
           /\ n = Len(unitIn.docs) => Cardinality(PassedPoints) = Len(unitIn.docs)

C22_Witness ==
    /\ unitOut.applied
    /\ unitOut.answer.failAt = 0
    /\ Len(unitIn.docs) = 3
    /\ ValidChunks = {1, 2, 3}
    /\ Len(unitOut.upserts) = 2
    /\ Len(unitOut.upserts[2].batch) = 1

\* C23: load_checkpoint returns the empty set when there is no checkpoint
\* file, and after save_checkpoint(S) it returns exactly S, whatever the file
\* held before the save.
C23_CheckpointRoundTrip ==
    (unitOut.applied /\ unitIn.op = "load_checkpoint") =>
        /\ ~checkpoint.exists => unitOut.result = {}
        /\ unitOut.saved.done =>
              /\ unitOut.result = unitOut.saved.names
              /\ \A x \in load_checkpoint(unitOut.saved.prior) \ unitOut.saved.names :
                    x \notin unitOut.result

C23_Witness ==
    /\ unitOut.applied
    /\ unitIn.op = "load_checkpoint"
    /\ unitOut.saved.done
    /\ unitOut.saved.names = {<<"a.xml">>, <<"B.XML">>}
    /\ <<"old.xml">> \in load_checkpoint(unitOut.saved.prior)
    /\ unitOut.result = {<<"a.xml">>, <<"B.XML">>}

\* C24: initiate_qdrant_session creates the collection, empty, with the
\* configured embedding dimension and cosine distance, when it returns and no
\* collection of that name existed; a collection that existed is left as it
\* was, points included, and is not recreated; the other collections are
\* never touched.
C24_SessionExistsOrCreates ==
    unitOut.applied =>
        LET n == unitIn.collection_name
            b == unitIn.before
        IN /\ b[n].exists => (collections = b /\ ~unitOut.recreated)
           /\ (~b[n].exists /\ unitOut.exc = "none") =>
                 /\ unitOut.recreated
                 /\ collections[n] = Collection(EmbeddingDim, "Cosine", {})
           /\ unitOut.exc # "none" => collections = b
           /\ \A m \in CollectionNames \ {n} : collections[m] = b[m]

C24_Witness ==
    /\ unitOut.applied
    /\ unitOut.exc = "none"
    /\ unitIn.collection_name = "pmc"
    /\ unitIn.before["pmc"].exists
    /\ collections["pmc"].points = SessionPoints
    /\ collections["pmc"].size = EmbeddingDim

\* C25: every point embed_docs upserts carries the vector computed from the
\* content of its own chunk, blank chunks in the list or not.
C25_PointCarriesOwnVector ==
    unitOut.applied =>
        \A p \in unitOut.store : p.vector.of = p.payload.text

\* C26: the stream of a member is closed when process_xml_member is left,
\* by a return (after success or a caught error) or by an exception that
\* propagates; so only the member being processed has an open stream, and
\* no stream is open between members or once the run has ended.
C26_StreamClosedOnEveryPath ==
    /\ Cardinality(streams) <= 1
    /\ pc = "process" => streams = {idx}
    /\ pc # "process" => streams = {}

C26_Witness ==
    /\ Ended
    /\ last.member # 0
    /\ last.raised # "none"
    /\ MemberHandler(last.raised) = ""
    /\ streams = {}

\* a step that makes calls makes them for the member gated last, and a step
\* that gates a member makes no call
CallsForGatedLast ==
    /\ (Len(calls') > Len(calls)) =>
          /\ gated' = gated
          /\ gated # <<>>
          /\ SubSeq(calls', 1, Len(calls)) = calls
          /\ \A k \in (Len(calls) + 1)..Len(calls') :
               calls'[k].member = gated[Len(gated)]
    /\ (Len(gated') > Len(gated)) => calls' = calls

\* C27: the members are taken one at a time in archive order: the gate is
\* given members of strictly increasing position, so each at most once in a
\* run; every embedding call and every upsert is made for the member gated
\* last, and gating a member makes no such call.
C27_MembersStrictlySequential ==
    /\ [](\A j, k \in 1..Len(gated) : j < k => gated[j] < gated[k])
    /\ [][CallsForGatedLast]_vars

C27_Witness ==
    /\ Len(gated) = 2
    /\ \E k \in 1..Len(calls) : calls[k].op = "upsert" /\ calls[k].member = 1
    /\ \E k \in 1..Len(calls) : calls[k].op = "upsert" /\ calls[k].member = 2

\* the gate raises its unsafe-path error for member i
GateRaises(i) == safe_extract_member(archive[i], ExtractDir).exc = "ValueError"

UnsafeLogged(i) ==
    [level |-> "error", msg |-> "Unsafe file path detected", arg |-> archive[i].name] \in log

\* C28: a member for which the gate raises ValueError has the error logged
\* and is not processed (no stream, no call made for it); right after it the
\* run is in the loop at the next member, or has returned because the
\* archive is exhausted, and no exception is pending.
C28_UnsafeMemberLoggedAndSkipped ==
    /\ \A k \in 1..Len(gated) :
         GateRaises(gated[k]) =>
            /\ UnsafeLogged(gated[k])
            /\ gated[k] \notin streams
            /\ \A c \in 1..Len(calls) : calls[c].member # gated[k]
    /\ (gated # <<>> /\ GateRaises(gated[Len(gated)])) =>
            /\ idx = gated[Len(gated)] + 1
            /\ exc = "none"
            /\ pc \in {"loop", "returned"}
            /\ pc = "returned" => idx > Len(archive)

C28_Witness ==
    /\ Len(gated) = 2
    /\ GateRaises(1)
    /\ UnsafeLogged(1)
    /\ \E c \in 1..Len(calls) : calls[c].op = "upsert" /\ calls[c].member = 2

\* C29: when iterate_tar has returned after the archive was opened, every
\* member of the archive has been given to the gate, once, in order.
C29_NormalReturnMeansExhausted ==
    (pc = "returned" /\ openError = "none") =>
        gated = [i \in 1..Len(archive) |-> i]

\* the two documents are told apart by their pmid, or have none
NotSamePmid(d1, d2) == d1.pmid = NoneVal \/ d2.pmid = NoneVal \/ d1.pmid # d2.pmid

\* C30: two members whose documents differ (and are not two versions of the
\* article of one pmid) never upsert under the same point id.
C30_DifferentDocumentsDifferentIds ==
    \A j, k \in 1..Len(calls) :
        (/\ calls[j].op = "upsert"
         /\ calls[k].op = "upsert"
         /\ archive[calls[j].member].doc # archive[calls[k].member].doc
         /\ NotSamePmid(archive[calls[j].member].doc, archive[calls[k].member].doc))
        => calls[j].ids \cap calls[k].ids = {}

====
